---- MODULE Spec2Model ----
(***************************************************************************)
(* PokemonGallaecia gameplay scripts: PlayerCharacter (movement, status    *)
(* and interaction gate), PlayerAnimation (clip selection) and the login   *)
(* gate (LoginScreen / Player).                                            *)
(*                                                                         *)
(* Three specifications share the module:                                  *)
(*   Spec       PlayerCharacter driven by physics frames and notifications *)
(*   SpecAnim   PlayerAnimation driven by animate deliveries               *)
(*   SpecLogin  LoginScreen driven by presses of the login button          *)
(***************************************************************************)
EXTENDS Integers, Sequences, FiniteSets, TLC

\* ------------------------------------------------------------------ bounds
\* the map is a square of (MaxPos+1) x (MaxPos+1) cells of side VELOCITY
MaxPos == 1
\* number of non-interacting physics frames explored (caps `counter`)
MaxFrames == 3
\* number of animate deliveries explored
MaxCalls == 3
\* number of presses of the login button explored
MaxAttempts == 3
\* number of non-interacting physics frames explored with the sprite listening
MaxGameFrames == 2

\* in_game_constant::VELOCITY, the speed used by move_character
VELOCITY == 2

\* ------------------------------------------------------------------ types
Idle == "Idle"
Walking == "Walking"
Interacting == "Interacting"
PlayerStatus == {Idle, Walking, Interacting}

Upwards == "Upwards"
Downwards == "Downwards"
Left == "Left"
Right == "Right"
PlayerDirection == {Upwards, Downwards, Left, Right}

Closed == "Closed"
Open == "Open"
Inactive == "Inactive"
Active == "Active"

Vector2(x, y) == [x |-> x, y |-> y]

\* Option<T>
None == [some |-> FALSE]
Some(v) == [some |-> TRUE, value |-> v]

\* the input actions polled with is_action_pressed
Directions == {"Left", "Right", "Up", "Down"}
\* the input actions polled with is_action_just_pressed
EdgeKeys == {"Interact", "Menu"}

\* what move_and_collide hands back: no collision, or a collision whose
\* collider is a node with the given children
Collisions == {None, Some({"Interact", "Sprite"}), Some({"Sprite"})}

\* the strings delivered to handle_interaction
SignalInfos == {"on_dialogue", "menu_active", "interaction_ended", "On_Dialogue"}

\* the positions of the map
MapPositions ==
    {Vector2(x * VELOCITY, y * VELOCITY) : x \in 0..MaxPos, y \in 0..MaxPos}

\* the motion vectors delivered to _on_player_animate
Motions == {Vector2(x, y) : x \in {-VELOCITY, 0, VELOCITY}, y \in {-VELOCITY, 0, VELOCITY}}

VARIABLES
    \* PlayerCharacter
    player_status, menu_status, dialogue_box_status, motion,
    current_position, counter,
    \* signals emitted by the last PlayerCharacter operation, in order
    emitted,
    \* the last PlayerCharacter operation, its inputs and the state it started from
    last,
    \* PlayerAnimation
    current_player_motion, current_player_direction, idle_player_direction,
    \* clips handed to play() by the last PlayerAnimation operation, in order
    played,
    \* the last PlayerAnimation operation, its input and the state it started from
    anim_last,
    \* the direction _ready loaded and the motions delivered since (the
    \* motions are recorded when PlayerAnimation is driven on its own)
    loaded_direction, received,
    \* LoginScreen
    player, scene,
    \* lines printed by the last press of the login button
    printed,
    \* the last LoginScreen operation and its inputs; the presses so far
    login_last, attempts,
    \* a direct call of Player::check_credentials: its arguments and its outcome
    check_last

pcvars == <<player_status, menu_status, dialogue_box_status, motion,
            current_position, counter, emitted, last>>
animvars == <<current_player_motion, current_player_direction,
              idle_player_direction, played, anim_last, loaded_direction, received>>
loginvars == <<player, scene, printed, login_last, attempts>>
checkvars == <<check_last>>
vars == <<pcvars, animvars, loginvars, checkvars>>

\* ---------------------------------------------------------- PlayerCharacter
\* the PlayerCharacter object
Self == [player_status |-> player_status, menu_status |-> menu_status,
         dialogue_box_status |-> dialogue_box_status, motion |-> motion,
         current_position |-> current_position, counter |-> counter]

\* move_character with the Right test ahead of the Left test
move_character_RightFirst(self, pressed) ==
    IF "Right" \in pressed
      THEN [self EXCEPT !.motion = Vector2(VELOCITY, 0), !.player_status = Walking]
    ELSE IF "Left" \in pressed
      THEN [self EXCEPT !.motion = Vector2(VELOCITY * (-1), 0), !.player_status = Walking]
    ELSE IF "Up" \in pressed
      THEN [self EXCEPT !.motion = Vector2(0, VELOCITY * (-1)), !.player_status = Walking]
    ELSE IF "Down" \in pressed
      THEN [self EXCEPT !.motion = Vector2(0, VELOCITY), !.player_status = Walking]
    ELSE [self EXCEPT !.motion = Vector2(0, 0), !.player_status = Idle]

\* move_character whose Down arm forgets to set the status
move_character_DownKeepsStatus(self, pressed) ==
    IF "Left" \in pressed
      THEN [self EXCEPT !.motion = Vector2(VELOCITY * (-1), 0), !.player_status = Walking]
    ELSE IF "Right" \in pressed
      THEN [self EXCEPT !.motion = Vector2(VELOCITY, 0), !.player_status = Walking]
    ELSE IF "Up" \in pressed
      THEN [self EXCEPT !.motion = Vector2(0, VELOCITY * (-1)), !.player_status = Walking]
    ELSE IF "Down" \in pressed
      THEN [self EXCEPT !.motion = Vector2(0, VELOCITY)]
    ELSE [self EXCEPT !.motion = Vector2(0, 0), !.player_status = Idle]

\* move_character whose Left and Right arms leave motion.y as it was
move_character_KeepsOtherAxis(self, pressed) ==
    IF "Left" \in pressed
      THEN [self EXCEPT !.motion = Vector2(VELOCITY * (-1), self.motion.y),
                        !.player_status = Walking]
    ELSE IF "Right" \in pressed
      THEN [self EXCEPT !.motion = Vector2(VELOCITY, self.motion.y),
                        !.player_status = Walking]
    ELSE IF "Up" \in pressed
      THEN [self EXCEPT !.motion = Vector2(0, VELOCITY * (-1)), !.player_status = Walking]
    ELSE IF "Down" \in pressed
      THEN [self EXCEPT !.motion = Vector2(0, VELOCITY), !.player_status = Walking]
    ELSE [self EXCEPT !.motion = Vector2(0, 0), !.player_status = Idle]

move_character(self, pressed) ==
    IF "Left" \in pressed
      THEN [self EXCEPT !.motion = Vector2(VELOCITY * (-1), 0), !.player_status = Walking]
    ELSE IF "Right" \in pressed
      THEN [self EXCEPT !.motion = Vector2(VELOCITY, 0), !.player_status = Walking]
    ELSE IF "Up" \in pressed
      THEN [self EXCEPT !.motion = Vector2(0, VELOCITY * (-1)), !.player_status = Walking]
    ELSE IF "Down" \in pressed
      THEN [self EXCEPT !.motion = Vector2(0, VELOCITY), !.player_status = Walking]
    ELSE [self EXCEPT !.motion = Vector2(0, 0), !.player_status = Idle]

PlayerCharacter_new ==
    [player_status |-> Idle, menu_status |-> Closed,
     dialogue_box_status |-> Inactive, motion |-> Vector2(0, 0),
     current_position |-> Vector2(0, 0), counter |-> 0]

\* a signal as it leaves emit_signal; `status` is self.player_status at that moment
Emit(self, name, args) == [name |-> name, args |-> args, status |-> self.player_status]

animate_character(self) == <<Emit(self, "animate", <<self.motion>>)>>

player_is_interacting(self) == <<Emit(self, "player_interacting", <<>>)>>

\* is_valid_interaction without the test for the "Interact" child
is_valid_interaction_AnyBody(self, coll_body) ==
    IF self.dialogue_box_status = Inactive THEN TRUE ELSE FALSE

is_valid_interaction(self, coll_body) ==
    IF "Interact" \in coll_body /\ self.dialogue_box_status = Inactive
      THEN TRUE
      ELSE FALSE

\* the node the collision was with
get_collision_body(collision) == collision.value

\* the signals interact sends
interact(self, collision_data) ==
    IF collision_data.some
      THEN IF is_valid_interaction(self, get_collision_body(collision_data))
             THEN player_is_interacting(self)
             ELSE <<>>
      ELSE <<>>

\* owner.global_position() after move_and_collide(motion * delta): the body
\* advances by the motion when nothing is hit and stays where it is otherwise
move_and_collide(pos, m, collision_data) ==
    IF collision_data.some THEN pos ELSE Vector2(pos.x + m.x, pos.y + m.y)

\* _physics_process without the test that skips the frame while Interacting
_physics_process_NoGate(self, pressed, just_pressed, collision_data) ==
    LET anim == animate_character(self)
        s1 == move_character(self, pressed)
        s2 == [s1 EXCEPT
                 !.current_position =
                     move_and_collide(self.current_position, s1.motion, collision_data),
                 !.counter = self.counter + 1]
        inter == IF "Interact" \in just_pressed
                   THEN IF s2.player_status # Interacting
                          THEN interact(s2, collision_data)
                          ELSE <<>>
                   ELSE <<>>
        menu == IF "Menu" \in just_pressed
                  THEN <<Emit(s2, "player_position",
                              <<<<s2.current_position.x, s2.current_position.y>>>>)>>
                  ELSE <<>>
    IN [self |-> s2, emitted |-> anim \o inter \o menu]

\* _physics_process that emits animate once the inputs are resolved
_physics_process_AnimateLast(self, pressed, just_pressed, collision_data) ==
    LET anim == animate_character(self)
    IN IF self.player_status # Interacting
         THEN LET s1 == move_character(self, pressed)
                  s2 == [s1 EXCEPT
                           !.current_position =
                               move_and_collide(self.current_position, s1.motion, collision_data),
                           !.counter = self.counter + 1]
                  inter == IF "Interact" \in just_pressed
                             THEN IF s2.player_status # Interacting
                                    THEN interact(s2, collision_data)
                                    ELSE <<>>
                             ELSE <<>>
                  menu == IF "Menu" \in just_pressed
                            THEN <<Emit(s2, "player_position",
                                        <<<<s2.current_position.x, s2.current_position.y>>>>)>>
                            ELSE <<>>
              IN [self |-> s2, emitted |-> animate_character(s2) \o inter \o menu]
         ELSE [self |-> self, emitted |-> anim]

\* _physics_process whose player_position carries the position before the move
_physics_process_StalePosition(self, pressed, just_pressed, collision_data) ==
    LET anim == animate_character(self)
    IN IF self.player_status # Interacting
         THEN LET s1 == move_character(self, pressed)
                  s2 == [s1 EXCEPT
                           !.current_position =
                               move_and_collide(self.current_position, s1.motion, collision_data),
                           !.counter = self.counter + 1]
                  inter == IF "Interact" \in just_pressed
                             THEN IF s2.player_status # Interacting
                                    THEN interact(s2, collision_data)
                                    ELSE <<>>
                             ELSE <<>>
                  menu == IF "Menu" \in just_pressed
                            THEN <<Emit(s2, "player_position",
                                        <<<<self.current_position.x, self.current_position.y>>>>)>>
                            ELSE <<>>
              IN [self |-> s2, emitted |-> anim \o inter \o menu]
         ELSE [self |-> self, emitted |-> anim]

\* the object after the frame and the signals the frame emitted
_physics_process(self, pressed, just_pressed, collision_data) ==
    LET anim == animate_character(self)
    IN IF self.player_status # Interacting
         THEN LET s1 == move_character(self, pressed)
                  s2 == [s1 EXCEPT
                           !.current_position =
                               move_and_collide(self.current_position, s1.motion, collision_data),
                           !.counter = self.counter + 1]
                  inter == IF "Interact" \in just_pressed
                             THEN IF s2.player_status # Interacting
                                    THEN interact(s2, collision_data)
                                    ELSE <<>>
                             ELSE <<>>
                  menu == IF "Menu" \in just_pressed
                            THEN <<Emit(s2, "player_position",
                                        <<<<s2.current_position.x, s2.current_position.y>>>>)>>
                            ELSE <<>>
              IN [self |-> s2, emitted |-> anim \o inter \o menu]
         ELSE [self |-> self, emitted |-> anim]

\* handle_interaction whose default arm leaves the menu as it is
handle_interaction_MenuStaysOpen(self, signal_info) ==
    IF signal_info = "on_dialogue"
      THEN [self EXCEPT !.player_status = Interacting, !.motion = Vector2(0, 0),
                        !.dialogue_box_status = Active]
    ELSE IF signal_info = "menu_active"
      THEN [self EXCEPT !.player_status = Interacting, !.motion = Vector2(0, 0),
                        !.menu_status = Open]
    ELSE [self EXCEPT !.player_status = Idle, !.dialogue_box_status = Inactive]

\* handle_interaction whose "menu_active" arm leaves the motion as it was
handle_interaction_MenuKeepsMotion(self, signal_info) ==
    IF signal_info = "on_dialogue"
      THEN [self EXCEPT !.player_status = Interacting, !.motion = Vector2(0, 0),
                        !.dialogue_box_status = Active]
    ELSE IF signal_info = "menu_active"
      THEN [self EXCEPT !.player_status = Interacting, !.menu_status = Open]
    ELSE [self EXCEPT !.player_status = Idle, !.dialogue_box_status = Inactive,
                      !.menu_status = Closed]

\* handle_interaction whose default arm leaves the dialogue box as it was
handle_interaction_DialogueStaysActive(self, signal_info) ==
    IF signal_info = "on_dialogue"
      THEN [self EXCEPT !.player_status = Interacting, !.motion = Vector2(0, 0),
                        !.dialogue_box_status = Active]
    ELSE IF signal_info = "menu_active"
      THEN [self EXCEPT !.player_status = Interacting, !.motion = Vector2(0, 0),
                        !.menu_status = Open]
    ELSE [self EXCEPT !.player_status = Idle, !.menu_status = Closed]

\* handle_interaction whose "on_dialogue" arm leaves the motion as it was
handle_interaction_DialogueKeepsMotion(self, signal_info) ==
    IF signal_info = "on_dialogue"
      THEN [self EXCEPT !.player_status = Interacting, !.dialogue_box_status = Active]
    ELSE IF signal_info = "menu_active"
      THEN [self EXCEPT !.player_status = Interacting, !.motion = Vector2(0, 0),
                        !.menu_status = Open]
    ELSE [self EXCEPT !.player_status = Idle, !.dialogue_box_status = Inactive,
                      !.menu_status = Closed]

handle_interaction(self, signal_info) ==
    IF signal_info = "on_dialogue"
      THEN [self EXCEPT !.player_status = Interacting, !.motion = Vector2(0, 0),
                        !.dialogue_box_status = Active]
    ELSE IF signal_info = "menu_active"
      THEN [self EXCEPT !.player_status = Interacting, !.motion = Vector2(0, 0),
                        !.menu_status = Open]
    ELSE [self EXCEPT !.player_status = Idle, !.dialogue_box_status = Inactive,
                      !.menu_status = Closed]

\* the object is written back to the fields
Store(self) ==
    /\ player_status' = self.player_status
    /\ menu_status' = self.menu_status
    /\ dialogue_box_status' = self.dialogue_box_status
    /\ motion' = self.motion
    /\ current_position' = self.current_position
    /\ counter' = self.counter

PCInit ==
    /\ player_status = PlayerCharacter_new.player_status
    /\ menu_status = PlayerCharacter_new.menu_status
    /\ dialogue_box_status = PlayerCharacter_new.dialogue_box_status
    /\ motion = PlayerCharacter_new.motion
    /\ current_position = PlayerCharacter_new.current_position
    /\ counter = PlayerCharacter_new.counter
    /\ emitted = <<>>
    /\ last = [op |-> "new"]

\* _ready places the player at the position kept in the configuration file
PCReady ==
    /\ last.op = "new"
    /\ \E p \in MapPositions : Store([Self EXCEPT !.current_position = p])
    /\ emitted' = <<>>
    /\ last' = [op |-> "_ready"]

PhysicsFrame ==
    /\ last.op # "new"
    /\ \E pressed \in SUBSET Directions, just_pressed \in SUBSET EdgeKeys,
          collision_data \in Collisions :
         LET r == _physics_process(Self, pressed, just_pressed, collision_data)
         IN /\ r.self.counter <= MaxFrames
            /\ r.self.current_position \in MapPositions
            /\ Store(r.self)
            /\ emitted' = r.emitted
            /\ last' = [op |-> "_physics_process", pressed |-> pressed,
                        just_pressed |-> just_pressed, collision |-> collision_data,
                        start |-> Self]

HandleInteraction ==
    /\ last.op # "new"
    /\ \E signal_info \in SignalInfos :
         /\ Store(handle_interaction(Self, signal_info))
         /\ emitted' = <<>>
         /\ last' = [op |-> "handle_interaction", signal_info |-> signal_info,
                     start |-> Self]

\* ---------------------------------------------------------- PlayerAnimation
\* the PlayerAnimation object
AnimSelf == [current_player_motion |-> current_player_motion,
             current_player_direction |-> current_player_direction,
             idle_player_direction |-> idle_player_direction]

PlayerAnimation_new ==
    [current_player_motion |-> Idle, current_player_direction |-> Downwards,
     idle_player_direction |-> Downwards]

\* the object after _ready and the clips it played; `direction` is what
\* utils::get_player_direction() read from the configuration file
PlayerAnimation_ready(self, direction) ==
    LET s == [self EXCEPT !.idle_player_direction = direction]
    IN [self |-> s,
        played |-> IF s.idle_player_direction = Downwards THEN <<"idle front">>
                   ELSE IF s.idle_player_direction = Upwards THEN <<"idle back">>
                   ELSE IF s.idle_player_direction = Left THEN <<"idle left">>
                   ELSE <<"idle right">>]

\* _on_player_animate with the tests on y ahead of the tests on x
_on_player_animate_YFirst(self, m) ==
    LET s == IF m.y < 0
               THEN [self EXCEPT !.current_player_direction = Upwards,
                                 !.current_player_motion = Walking]
             ELSE IF m.y > 0
               THEN [self EXCEPT !.current_player_direction = Downwards,
                                 !.current_player_motion = Walking]
             ELSE IF m.x > 0
               THEN [self EXCEPT !.current_player_direction = Right,
                                 !.current_player_motion = Walking]
             ELSE IF m.x < 0
               THEN [self EXCEPT !.current_player_direction = Left,
                                 !.current_player_motion = Walking]
             ELSE [self EXCEPT !.current_player_motion = Idle]
    IN IF s.current_player_motion = Idle
         THEN [self |-> s,
               played |-> IF s.idle_player_direction = Downwards THEN <<"idle front">>
                          ELSE IF s.idle_player_direction = Upwards THEN <<"idle back">>
                          ELSE IF s.idle_player_direction = Left THEN <<"idle left">>
                          ELSE <<"idle right">>]
       ELSE IF s.current_player_direction = Right
         THEN [self |-> [s EXCEPT !.idle_player_direction = Right],
               played |-> <<"walk right">>]
       ELSE IF Left = s.current_player_direction
         THEN [self |-> [s EXCEPT !.idle_player_direction = Left],
               played |-> <<"walk left">>]
       ELSE IF Downwards = s.current_player_direction
         THEN [self |-> [s EXCEPT !.idle_player_direction = Downwards],
               played |-> <<"walk downwards">>]
       ELSE IF Upwards = s.current_player_direction
         THEN [self |-> [s EXCEPT !.idle_player_direction = Upwards],
               played |-> <<"walk upwards">>]
       ELSE [self |-> s, played |-> <<>>]

\* _on_player_animate whose last arm leaves current_player_motion as it was
_on_player_animate_ZeroKeepsMotion(self, m) ==
    LET s == IF m.x > 0
               THEN [self EXCEPT !.current_player_direction = Right,
                                 !.current_player_motion = Walking]
             ELSE IF m.x < 0
               THEN [self EXCEPT !.current_player_direction = Left,
                                 !.current_player_motion = Walking]
             ELSE IF m.y < 0
               THEN [self EXCEPT !.current_player_direction = Upwards,
                                 !.current_player_motion = Walking]
             ELSE IF m.y > 0
               THEN [self EXCEPT !.current_player_direction = Downwards,
                                 !.current_player_motion = Walking]
             ELSE self
    IN IF s.current_player_motion = Idle
         THEN [self |-> s,
               played |-> IF s.idle_player_direction = Downwards THEN <<"idle front">>
                          ELSE IF s.idle_player_direction = Upwards THEN <<"idle back">>
                          ELSE IF s.idle_player_direction = Left THEN <<"idle left">>
                          ELSE <<"idle right">>]
       ELSE IF s.current_player_direction = Right
         THEN [self |-> [s EXCEPT !.idle_player_direction = Right],
               played |-> <<"walk right">>]
       ELSE IF Left = s.current_player_direction
         THEN [self |-> [s EXCEPT !.idle_player_direction = Left],
               played |-> <<"walk left">>]
       ELSE IF Downwards = s.current_player_direction
         THEN [self |-> [s EXCEPT !.idle_player_direction = Downwards],
               played |-> <<"walk downwards">>]
       ELSE IF Upwards = s.current_player_direction
         THEN [self |-> [s EXCEPT !.idle_player_direction = Upwards],
               played |-> <<"walk upwards">>]
       ELSE [self |-> s, played |-> <<>>]

\* _on_player_animate whose walk-left arm does not record the idle facing
_on_player_animate_LeftNotRemembered(self, m) ==
    LET s == IF m.x > 0
               THEN [self EXCEPT !.current_player_direction = Right,
                                 !.current_player_motion = Walking]
             ELSE IF m.x < 0
               THEN [self EXCEPT !.current_player_direction = Left,
                                 !.current_player_motion = Walking]
             ELSE IF m.y < 0
               THEN [self EXCEPT !.current_player_direction = Upwards,
                                 !.current_player_motion = Walking]
             ELSE IF m.y > 0
               THEN [self EXCEPT !.current_player_direction = Downwards,
                                 !.current_player_motion = Walking]
             ELSE [self EXCEPT !.current_player_motion = Idle]
    IN IF s.current_player_motion = Idle
         THEN [self |-> s,
               played |-> IF s.idle_player_direction = Downwards THEN <<"idle front">>
                          ELSE IF s.idle_player_direction = Upwards THEN <<"idle back">>
                          ELSE IF s.idle_player_direction = Left THEN <<"idle left">>
                          ELSE <<"idle right">>]
       ELSE IF s.current_player_direction = Right
         THEN [self |-> [s EXCEPT !.idle_player_direction = Right],
               played |-> <<"walk right">>]
       ELSE IF Left = s.current_player_direction
         THEN [self |-> s,
               played |-> <<"walk left">>]
       ELSE IF Downwards = s.current_player_direction
         THEN [self |-> [s EXCEPT !.idle_player_direction = Downwards],
               played |-> <<"walk downwards">>]
       ELSE IF Upwards = s.current_player_direction
         THEN [self |-> [s EXCEPT !.idle_player_direction = Upwards],
               played |-> <<"walk upwards">>]
       ELSE [self |-> s, played |-> <<>>]

\* the object after the call and the clips it played
_on_player_animate(self, m) ==
    LET s == IF m.x > 0
               THEN [self EXCEPT !.current_player_direction = Right,
                                 !.current_player_motion = Walking]
             ELSE IF m.x < 0
               THEN [self EXCEPT !.current_player_direction = Left,
                                 !.current_player_motion = Walking]
             ELSE IF m.y < 0
               THEN [self EXCEPT !.current_player_direction = Upwards,
                                 !.current_player_motion = Walking]
             ELSE IF m.y > 0
               THEN [self EXCEPT !.current_player_direction = Downwards,
                                 !.current_player_motion = Walking]
             ELSE [self EXCEPT !.current_player_motion = Idle]
    IN IF s.current_player_motion = Idle
         THEN [self |-> s,
               played |-> IF s.idle_player_direction = Downwards THEN <<"idle front">>
                          ELSE IF s.idle_player_direction = Upwards THEN <<"idle back">>
                          ELSE IF s.idle_player_direction = Left THEN <<"idle left">>
                          ELSE <<"idle right">>]
       ELSE IF s.current_player_direction = Right
         THEN [self |-> [s EXCEPT !.idle_player_direction = Right],
               played |-> <<"walk right">>]
       ELSE IF Left = s.current_player_direction
         THEN [self |-> [s EXCEPT !.idle_player_direction = Left],
               played |-> <<"walk left">>]
       ELSE IF Downwards = s.current_player_direction
         THEN [self |-> [s EXCEPT !.idle_player_direction = Downwards],
               played |-> <<"walk downwards">>]
       ELSE IF Upwards = s.current_player_direction
         THEN [self |-> [s EXCEPT !.idle_player_direction = Upwards],
               played |-> <<"walk upwards">>]
       ELSE [self |-> s, played |-> <<>>]

AnimStore(self) ==
    /\ current_player_motion' = self.current_player_motion
    /\ current_player_direction' = self.current_player_direction
    /\ idle_player_direction' = self.idle_player_direction

AnimInit ==
    /\ current_player_motion = PlayerAnimation_new.current_player_motion
    /\ current_player_direction = PlayerAnimation_new.current_player_direction
    /\ idle_player_direction = PlayerAnimation_new.idle_player_direction
    /\ played = <<>>
    /\ anim_last = [op |-> "new"]
    /\ loaded_direction = PlayerAnimation_new.idle_player_direction
    /\ received = <<>>

AnimReady ==
    /\ anim_last.op = "new"
    /\ \E direction \in PlayerDirection :
         LET r == PlayerAnimation_ready(AnimSelf, direction)
         IN /\ AnimStore(r.self)
            /\ played' = r.played
            /\ loaded_direction' = direction
    /\ anim_last' = [op |-> "_ready"]
    /\ UNCHANGED received

OnPlayerAnimate ==
    /\ anim_last.op # "new"
    /\ Len(received) < MaxCalls
    /\ \E m \in Motions :
         LET r == _on_player_animate(AnimSelf, m)
         IN /\ AnimStore(r.self)
            /\ played' = r.played
            /\ anim_last' = [op |-> "_on_player_animate", motion |-> m, start |-> AnimSelf]
            /\ received' = Append(received, m)
    /\ UNCHANGED loaded_direction

\* -------------------------------------------------------------- LoginScreen
\* a string is the sequence of its characters
root == <<"r", "o", "o", "t">>
Root == <<"R", "o", "o", "t">>

\* the texts typed into the username and password line edits
Texts == {root, Root,
          <<"R", "O", "O", "T">>, <<"r", "O", "o", "T">>,
          <<>>, <<"r", "o", "o">>, <<"r", "o", "o", "t", "s">>,
          <<"t", "o", "o", "r">>}

LOGIN_SCREEN == "LoginScreen"
LEVEL_1 == "LEVEL_1"

create_new_player(username, password, level) ==
    [username |-> username, password |-> password, level |-> level]

\* check_credentials that examines the password only under a correct username
check_credentials_PasswordNeedsUsername(username, password) ==
    LET u == IF ~username.some THEN [panic |-> TRUE, flag |-> FALSE, printed |-> <<>>]
             ELSE IF username.value = root \/ username.value = Root
               THEN [panic |-> FALSE, flag |-> TRUE, printed |-> <<>>]
             ELSE IF username.value = <<>>
               THEN [panic |-> FALSE, flag |-> FALSE, printed |-> <<"Provide an username">>]
             ELSE [panic |-> FALSE, flag |-> FALSE, printed |-> <<>>]
        p == IF ~password.some THEN [panic |-> TRUE, flag |-> FALSE, printed |-> <<>>]
             ELSE IF u.flag /\ (password.value = root \/ password.value = Root)
               THEN [panic |-> FALSE, flag |-> TRUE, printed |-> <<>>]
             ELSE IF password.value = <<>>
               THEN [panic |-> FALSE, flag |-> FALSE, printed |-> <<"Provide a password">>]
             ELSE [panic |-> FALSE, flag |-> FALSE, printed |-> <<>>]
    IN IF u.panic THEN [panic |-> TRUE, examined |-> <<"username">>, printed |-> u.printed]
       ELSE IF p.panic
         THEN [panic |-> TRUE, examined |-> <<"username", "password">>, printed |-> u.printed]
       ELSE [panic |-> FALSE, examined |-> <<"username", "password">>,
             flags |-> <<u.flag, p.flag>>, printed |-> u.printed \o p.printed]

\* the outcome of check_credentials: a panic, or the flag pair and the lines printed
\* check_credentials that takes a missing credential for a wrong one
check_credentials_NoneIsWrong(username, password) ==
    LET u == IF ~username.some THEN [flag |-> FALSE, printed |-> <<>>]
             ELSE IF username.value = root \/ username.value = Root
               THEN [flag |-> TRUE, printed |-> <<>>]
             ELSE IF username.value = <<>>
               THEN [flag |-> FALSE, printed |-> <<"Provide an username">>]
             ELSE [flag |-> FALSE, printed |-> <<>>]
        p == IF ~password.some THEN [flag |-> FALSE, printed |-> <<>>]
             ELSE IF password.value = root \/ password.value = Root
               THEN [flag |-> TRUE, printed |-> <<>>]
             ELSE IF password.value = <<>>
               THEN [flag |-> FALSE, printed |-> <<"Provide a password">>]
             ELSE [flag |-> FALSE, printed |-> <<>>]
    IN [panic |-> FALSE, examined |-> <<"username", "password">>,
        flags |-> <<u.flag, p.flag>>, printed |-> u.printed \o p.printed]

check_credentials(username, password) ==
    LET u == IF ~username.some THEN [panic |-> TRUE, flag |-> FALSE, printed |-> <<>>]
             ELSE IF username.value = root \/ username.value = Root
               THEN [panic |-> FALSE, flag |-> TRUE, printed |-> <<>>]
             ELSE IF username.value = <<>>
               THEN [panic |-> FALSE, flag |-> FALSE, printed |-> <<"Provide an username">>]
             ELSE [panic |-> FALSE, flag |-> FALSE, printed |-> <<>>]
        p == IF ~password.some THEN [panic |-> TRUE, flag |-> FALSE, printed |-> <<>>]
             ELSE IF password.value = root \/ password.value = Root
               THEN [panic |-> FALSE, flag |-> TRUE, printed |-> <<>>]
             ELSE IF password.value = <<>>
               THEN [panic |-> FALSE, flag |-> FALSE, printed |-> <<"Provide a password">>]
             ELSE [panic |-> FALSE, flag |-> FALSE, printed |-> <<>>]
    IN IF u.panic THEN [panic |-> TRUE, examined |-> <<"username">>, printed |-> u.printed]
       ELSE IF p.panic
         THEN [panic |-> TRUE, examined |-> <<"username", "password">>, printed |-> u.printed]
       ELSE [panic |-> FALSE, examined |-> <<"username", "password">>,
             flags |-> <<u.flag, p.flag>>, printed |-> u.printed \o p.printed]

\* the LoginScreen after the button press: the player, the scene and the lines printed
\* _on_login_button_pressed whose first arm matches (true, _)
_on_login_button_pressed_AnyPassword(self_player, self_scene, username, password) ==
    LET credentials_status == check_credentials(Some(username), Some(password))
    IN IF credentials_status.panic
         THEN [player |-> self_player, scene |-> self_scene,
               printed |-> credentials_status.printed, panic |-> TRUE,
               credentials_status |-> credentials_status]
       ELSE IF credentials_status.flags[1]
         THEN [player |-> Some(create_new_player(username, password, 1)),
               scene |-> LEVEL_1,
               printed |-> credentials_status.printed, panic |-> FALSE,
               credentials_status |-> credentials_status]
       ELSE IF credentials_status.flags = <<TRUE, FALSE>>
         THEN [player |-> self_player, scene |-> self_scene,
               printed |-> credentials_status.printed \o <<"Wrong password. Try again.">>,
               panic |-> FALSE, credentials_status |-> credentials_status]
       ELSE [player |-> self_player, scene |-> self_scene,
             printed |-> credentials_status.printed \o <<"Wrong credentials. Try again.">>,
             panic |-> FALSE, credentials_status |-> credentials_status]

_on_login_button_pressed(self_player, self_scene, username, password) ==
    LET credentials_status == check_credentials(Some(username), Some(password))
    IN IF credentials_status.panic
         THEN [player |-> self_player, scene |-> self_scene,
               printed |-> credentials_status.printed, panic |-> TRUE,
               credentials_status |-> credentials_status]
       ELSE IF credentials_status.flags = <<TRUE, TRUE>>
         THEN [player |-> Some(create_new_player(username, password, 1)),
               scene |-> LEVEL_1,
               printed |-> credentials_status.printed, panic |-> FALSE,
               credentials_status |-> credentials_status]
       ELSE IF credentials_status.flags = <<TRUE, FALSE>>
         THEN [player |-> self_player, scene |-> self_scene,
               printed |-> credentials_status.printed \o <<"Wrong password. Try again.">>,
               panic |-> FALSE, credentials_status |-> credentials_status]
       ELSE [player |-> self_player, scene |-> self_scene,
             printed |-> credentials_status.printed \o <<"Wrong credentials. Try again.">>,
             panic |-> FALSE, credentials_status |-> credentials_status]

LoginInit ==
    /\ player = None
    /\ scene = LOGIN_SCREEN
    /\ printed = <<>>
    /\ login_last = [op |-> "new"]
    /\ attempts = 0

\* the button exists while the login scene is the current scene
LoginButtonPressed ==
    /\ scene = LOGIN_SCREEN
    /\ attempts < MaxAttempts
    /\ \E username \in Texts, password \in Texts :
         LET r == _on_login_button_pressed(player, scene, username, password)
         IN /\ player' = r.player
            /\ scene' = r.scene
            /\ printed' = r.printed
            /\ login_last' = [op |-> "_on_login_button_pressed",
                              username |-> username, password |-> password,
                              start_player |-> player,
                              credentials_status |-> r.credentials_status]
    /\ attempts' = attempts + 1

\* ---------------------------------- PlayerCharacter.animate -> PlayerAnimation
\* the animation after the animate signals among `signals` were delivered, in
\* order, to _on_player_animate; `delivered` holds the motions handed over
RECURSIVE deliver_animate(_, _)
deliver_animate(a, signals) ==
    IF signals = <<>> THEN a
    ELSE IF Head(signals).name = "animate"
      THEN LET m == Head(signals).args[1]
               r == _on_player_animate(a.self, m)
           IN deliver_animate([self |-> r.self, played |-> a.played \o r.played,
                               delivered |-> Append(a.delivered, m)],
                              Tail(signals))
    ELSE deliver_animate(a, Tail(signals))

\* both nodes enter the scene tree
GameReady ==
    /\ PCReady
    /\ AnimReady

\* a physics frame of the player with the sprite listening to animate; the
\* edge keys and the collision never reach the sprite and are explored in two
\* combinations each, the directions in all sixteen
GameFrame ==
    /\ anim_last.op # "new"
    /\ player_status # Interacting => counter < MaxGameFrames
    /\ PhysicsFrame
    /\ last'.just_pressed \in {{}, EdgeKeys}
    /\ last'.collision \in {None, Some({"Interact", "Sprite"})}
    /\ LET a == deliver_animate([self |-> AnimSelf, played |-> <<>>, delivered |-> <<>>],
                                emitted')
       IN /\ AnimStore(a.self)
          /\ played' = a.played
          /\ anim_last' = [op |-> "_on_player_animate", delivered |-> a.delivered]
    /\ UNCHANGED <<loaded_direction, received>>

GameHandleInteraction ==
    /\ HandleInteraction
    /\ UNCHANGED animvars

\* ------------------------------------------------- Player::check_credentials
\* the arguments a caller can pass: a missing credential or a text
Credentials == {None} \cup {Some(t) : t \in Texts}

\* no call of check_credentials yet
CheckIdle == check_last = [op |-> "none"]

\* a caller about to call check_credentials with any pair of arguments
CheckInit ==
    \E username \in Credentials, password \in Credentials :
        check_last = [op |-> "call", username |-> username, password |-> password]

CheckCredentials ==
    /\ check_last.op = "call"
    /\ check_last' = [op |-> "check_credentials",
                      username |-> check_last.username,
                      password |-> check_last.password,
                      result |-> check_credentials(check_last.username,
                                                   check_last.password)]

\* ------------------------------------------------------------ specifications
Init == PCInit /\ AnimInit /\ LoginInit /\ CheckIdle

Next ==
    \/ PCReady /\ UNCHANGED <<animvars, loginvars, checkvars>>
    \/ PhysicsFrame /\ UNCHANGED <<animvars, loginvars, checkvars>>
    \/ HandleInteraction /\ UNCHANGED <<animvars, loginvars, checkvars>>

Spec == Init /\ [][Next]_vars

NextAnim ==
    \/ AnimReady /\ UNCHANGED <<pcvars, loginvars, checkvars>>
    \/ OnPlayerAnimate /\ UNCHANGED <<pcvars, loginvars, checkvars>>

SpecAnim == Init /\ [][NextAnim]_vars

NextLogin == LoginButtonPressed /\ UNCHANGED <<pcvars, animvars, checkvars>>

SpecLogin == Init /\ [][NextLogin]_vars

NextGame ==
    \/ GameReady /\ UNCHANGED <<loginvars, checkvars>>
    \/ GameFrame /\ UNCHANGED <<loginvars, checkvars>>
    \/ GameHandleInteraction /\ UNCHANGED <<loginvars, checkvars>>

SpecGame == Init /\ [][NextGame]_vars

InitCheck == PCInit /\ AnimInit /\ LoginInit /\ CheckInit

NextCheck == CheckCredentials /\ UNCHANGED <<pcvars, animvars, loginvars>>

SpecCheck == InitCheck /\ [][NextCheck]_vars
\* ------------------------------------------------------------------- claims
\* C1: a non-interacting frame leaves the motion and status of the first
\* pressed direction in the order Left, Right, Up, Down (zero motion and Idle
\* when none is pressed), whatever the motion and status were before.
C1_MovePriority ==
    (last.op = "_physics_process" /\ last.start.player_status # Interacting) =>
        LET order == <<"Left", "Right", "Up", "Down">>
            hits == {i \in 1..4 : order[i] \in last.pressed}
            first == IF hits = {} THEN "none"
                     ELSE order[CHOOSE i \in hits : \A j \in hits : i <= j]
        IN /\ first = "Left" => motion = Vector2(-VELOCITY, 0) /\ player_status = Walking
           /\ first = "Right" => motion = Vector2(VELOCITY, 0) /\ player_status = Walking
           /\ first = "Up" => motion = Vector2(0, -VELOCITY) /\ player_status = Walking
           /\ first = "Down" => motion = Vector2(0, VELOCITY) /\ player_status = Walking
           /\ first = "none" => motion = Vector2(0, 0) /\ player_status = Idle

\* a frame with Left and Right both pressed, started while walking right
C1_Witness ==
    /\ last.op = "_physics_process"
    /\ {"Left", "Right"} \subseteq last.pressed
    /\ last.start.player_status = Walking
    /\ last.start.motion = Vector2(VELOCITY, 0)
    /\ motion = Vector2(-VELOCITY, 0)

\* C2: a press of the login button constructs and stores a Player and changes
\* the scene if and only if username and password both equal "root" when the
\* case of the letters is ignored.
C2_LoginIffCaseInsensitiveRoot ==
    login_last.op = "_on_login_button_pressed" =>
        LET lower(c) == CASE c = "R" -> "r" [] c = "O" -> "o" [] c = "T" -> "t"
                          [] OTHER -> c
            eq_ignore_case(a, b) ==
                /\ Len(a) = Len(b)
                /\ \A i \in 1..Len(a) : lower(a[i]) = lower(b[i])
            both == /\ eq_ignore_case(login_last.username, root)
                    /\ eq_ignore_case(login_last.password, root)
        IN /\ both <=> (player.some /\ scene = LEVEL_1)
           /\ ~both => (player = login_last.start_player /\ scene = LOGIN_SCREEN)

\* C3: a non-interacting frame with Interact just pressed, a collider that has
\* an "Interact" child and an inactive dialogue box emits player_interacting
\* with the player Interacting at that moment and at the end of the frame.
C3_InteractEntersInteracting ==
    (/\ last.op = "_physics_process"
     /\ last.start.player_status # Interacting
     /\ "Interact" \in last.just_pressed
     /\ last.collision.some
     /\ "Interact" \in last.collision.value
     /\ last.start.dialogue_box_status = Inactive) =>
        /\ \E i \in DOMAIN emitted : emitted[i].name = "player_interacting"
        /\ \A i \in DOMAIN emitted :
             emitted[i].name = "player_interacting" => emitted[i].status = Interacting
        /\ player_status = Interacting

C5_InteractingFrameInert ==
    (last.op = "_physics_process" /\ last.start.player_status = Interacting) =>
        /\ player_status = Interacting
        /\ motion = last.start.motion
        /\ current_position = last.start.current_position
        /\ counter = last.start.counter
        /\ menu_status = last.start.menu_status
        /\ dialogue_box_status = last.start.dialogue_box_status
        /\ Len(emitted) = 1
        /\ emitted[1].name = "animate"

\* a frame started while Interacting with a direction, Interact and Menu all
\* down, next to a body one can interact with, the dialogue box inactive
C5_Witness ==
    /\ last.op = "_physics_process"
    /\ last.start.player_status = Interacting
    /\ last.pressed # {}
    /\ last.just_pressed = EdgeKeys
    /\ last.collision = Some({"Interact", "Sprite"})
    /\ dialogue_box_status = Inactive
    /\ counter > 0

\* C6: the player leaves Interacting only in a handle_interaction call whose
\* string is neither "on_dialogue" nor "menu_active", and such a call leaves
\* the player Idle, the dialogue box Inactive and the menu Closed.
C6_InteractingSticky ==
    /\ [][(player_status = Interacting /\ player_status' # Interacting) =>
            /\ last'.op = "handle_interaction"
            /\ last'.signal_info \notin {"on_dialogue", "menu_active"}
            /\ player_status' = Idle
            /\ dialogue_box_status' = Inactive
            /\ menu_status' = Closed]_vars
    /\ []((/\ last.op = "handle_interaction"
           /\ last.signal_info \notin {"on_dialogue", "menu_active"}) =>
            /\ player_status = Idle
            /\ dialogue_box_status = Inactive
            /\ menu_status = Closed)

\* an interaction with the menu open that was ended
C6_Witness ==
    /\ last.op = "handle_interaction"
    /\ last.signal_info = "interaction_ended"
    /\ last.start.player_status = Interacting
    /\ last.start.menu_status = Open
    /\ player_status = Idle

\* C7: _on_player_animate plays exactly one clip, chosen by the tests x>0,
\* x<0, y<0, y>0 in that order, and the idle clip of the remembered facing
\* when none of them holds.
C7_ClipSelection ==
    anim_last.op = "_on_player_animate" =>
        LET m == anim_last.motion
            facing == anim_last.start.idle_player_direction
            idle_clip == CASE facing = Downwards -> "idle front"
                           [] facing = Upwards -> "idle back"
                           [] facing = Left -> "idle left"
                           [] facing = Right -> "idle right"
        IN /\ Len(played) = 1
           /\ played[1] = CASE m.x > 0 -> "walk right"
                            [] m.x < 0 -> "walk left"
                            [] m.x = 0 /\ m.y < 0 -> "walk upwards"
                            [] m.x = 0 /\ m.y > 0 -> "walk downwards"
                            [] m.x = 0 /\ m.y = 0 -> idle_clip

\* a motion pointing left and up is animated as a walk to the left
C7_Witness ==
    /\ anim_last.op = "_on_player_animate"
    /\ anim_last.motion = Vector2(-VELOCITY, -VELOCITY)
    /\ played = <<"walk left">>

\* C8: _on_player_animate with motion (0,0) sets current_player_motion to
\* Idle, plays an idle clip and leaves both directions as they were.
C8_ZeroMotionIdle ==
    (anim_last.op = "_on_player_animate" /\ anim_last.motion = Vector2(0, 0)) =>
        /\ current_player_motion = Idle
        /\ Len(played) = 1
        /\ played[1] \in {"idle front", "idle back", "idle left", "idle right"}
        /\ idle_player_direction = anim_last.start.idle_player_direction
        /\ current_player_direction = anim_last.start.current_player_direction

\* a zero motion delivered while the animation was walking left
C8_Witness ==
    /\ anim_last.op = "_on_player_animate"
    /\ anim_last.motion = Vector2(0, 0)
    /\ anim_last.start.current_player_motion = Walking
    /\ anim_last.start.current_player_direction = Left
    /\ played = <<"idle left">>

\* C9: after _ready, idle_player_direction is the direction of the latest
\* nonzero motion delivered, or the direction _ready loaded when there was
\* none, and a zero motion plays the idle clip of that direction.
C9_IdleFacing ==
    anim_last.op # "new" =>
        LET nonzero == {i \in DOMAIN received : received[i] # Vector2(0, 0)}
            latest == received[CHOOSE i \in nonzero : \A j \in nonzero : j <= i]
            facing == IF nonzero = {} THEN loaded_direction
                      ELSE IF latest.x > 0 THEN Right
                      ELSE IF latest.x < 0 THEN Left
                      ELSE IF latest.y < 0 THEN Upwards
                      ELSE Downwards
        IN /\ idle_player_direction = facing
           /\ (anim_last.op = "_on_player_animate" /\ anim_last.motion = Vector2(0, 0)) =>
                played = <<CASE facing = Downwards -> "idle front"
                             [] facing = Upwards -> "idle back"
                             [] facing = Left -> "idle left"
                             [] facing = Right -> "idle right">>

\* right, then left, then a stop, after _ready loaded another direction
C9_Witness ==
    /\ loaded_direction = Upwards
    /\ received = <<Vector2(VELOCITY, 0), Vector2(-VELOCITY, 0), Vector2(0, 0)>>
    /\ idle_player_direction = Left
    /\ played = <<"idle left">>

\* C10 as stated: after every frame player_status is Walking if a direction
\* is pressed and Idle otherwise.
C10_StatusRecomputedEveryFrame ==
    last.op = "_physics_process" =>
        player_status = IF last.pressed # {} THEN Walking ELSE Idle

\* C10 amended: after a frame that did not start Interacting player_status is
\* Walking if a direction is pressed and Idle otherwise; a frame that started
\* Interacting leaves it Interacting.
C10_StatusRecomputedUnlessInteracting ==
    last.op = "_physics_process" =>
        player_status = IF last.start.player_status = Interacting THEN Interacting
                        ELSE IF last.pressed # {} THEN Walking
                        ELSE Idle

\* a frame with only Down pressed turns an idle player into a walking one
C10_Witness ==
    /\ last.op = "_physics_process"
    /\ last.start.player_status = Idle
    /\ last.pressed = {"Down"}
    /\ player_status = Walking
\* C11: in every reachable state the motion is (0,0) or has exactly one
\* component of magnitude VELOCITY, and so has every motion carried by animate.
C11_MotionOrthogonal ==
    LET orthogonal(m) ==
            /\ m.x \in {-VELOCITY, 0, VELOCITY}
            /\ m.y \in {-VELOCITY, 0, VELOCITY}
            /\ (m.x = 0 \/ m.y = 0)
    IN /\ orthogonal(motion)
       /\ \A i \in DOMAIN emitted :
            emitted[i].name = "animate" => orthogonal(emitted[i].args[1])

\* a turn from walking down to walking left, the animate of that frame still
\* carrying the downward motion
C11_Witness ==
    /\ last.op = "_physics_process"
    /\ last.start.motion = Vector2(0, VELOCITY)
    /\ motion = Vector2(-VELOCITY, 0)
    /\ emitted[1].name = "animate"
    /\ emitted[1].args = <<Vector2(0, VELOCITY)>>
\* C12: check_credentials called with a missing username or a missing
\* password panics and returns no flag pair; a missing username panics before
\* the password is examined.
C12_NoneAborts ==
    (/\ check_last.op = "check_credentials"
     /\ (check_last.username = None \/ check_last.password = None)) =>
        /\ check_last.result.panic
        /\ "flags" \notin DOMAIN check_last.result
        /\ check_last.username = None => check_last.result.examined = <<"username">>

\* a call with a correct username and no password
C12_Witness ==
    /\ check_last.op = "check_credentials"
    /\ check_last.username = Some(root)
    /\ check_last.password = None
    /\ check_last.result.panic
\* C13: a press of the login button that fails (an empty field or a wrong
\* credential) prints a message, leaves LoginScreen.player as it was and
\* changes no scene; however many presses failed before, "root"/"root" logs in.
C13_FailedLoginOnlyLogs ==
    login_last.op = "_on_login_button_pressed" =>
        LET flags == login_last.credentials_status.flags
            empty == login_last.username = <<>> \/ login_last.password = <<>>
        IN /\ empty => flags # <<TRUE, TRUE>>
           /\ flags # <<TRUE, TRUE>> =>
                /\ player = login_last.start_player
                /\ scene = LOGIN_SCREEN
                /\ printed # <<>>
                /\ printed[Len(printed)] \in {"Wrong password. Try again.",
                                              "Wrong credentials. Try again."}
           /\ (login_last.username = root /\ login_last.password = root) =>
                /\ player = Some([username |-> root, password |-> root, level |-> 1])
                /\ scene = LEVEL_1

\* a third press with a correct username and a wrong password, after two
\* other failed presses
C13_Witness ==
    /\ login_last.op = "_on_login_button_pressed"
    /\ attempts = 3
    /\ login_last.username = Root
    /\ login_last.password = <<"t", "o", "o", "r">>
    /\ player = None
    /\ scene = LOGIN_SCREEN

\* C19: the first flag of check_credentials depends on the username only and
\* the second on the password only; the handler maps (true,true) to a new
\* player and the scene change, (true,false) to "Wrong password. Try again."
\* and a false username flag to "Wrong credentials. Try again.".
C19_IndependentFlags ==
    login_last.op = "_on_login_button_pressed" =>
        LET flags == login_last.credentials_status.flags
            u == login_last.username
            p == login_last.password
        IN /\ \A p2 \in Texts : check_credentials(Some(u), Some(p2)).flags[1] = flags[1]
           /\ \A u2 \in Texts : check_credentials(Some(u2), Some(p)).flags[2] = flags[2]
           /\ flags = <<TRUE, TRUE>> =>
                /\ player = Some(create_new_player(u, p, 1))
                /\ scene = LEVEL_1
           /\ flags = <<TRUE, FALSE>> =>
                /\ printed[Len(printed)] = "Wrong password. Try again."
                /\ player = None /\ scene = LOGIN_SCREEN
           /\ ~flags[1] =>
                /\ printed[Len(printed)] = "Wrong credentials. Try again."
                /\ player = None /\ scene = LOGIN_SCREEN

\* a correct password under a wrong username
C19_Witness ==
    /\ login_last.op = "_on_login_button_pressed"
    /\ login_last.username = <<"t", "o", "o", "r">>
    /\ login_last.password = root
    /\ login_last.credentials_status.flags = <<FALSE, TRUE>>
    /\ printed = <<"Wrong credentials. Try again.">>
\* C14: every frame emits animate first and once, carrying the motion the
\* player had when the frame began: (0,0) in the first frame and after an
\* "on_dialogue"/"menu_active" notification, and after a non-interacting
\* frame the motion that frame's inputs produced.
C14_AnimateCarriesPreviousMotion ==
    [][last'.op = "_physics_process" =>
         /\ Len(emitted') >= 1
         /\ emitted'[1].name = "animate"
         /\ emitted'[1].args = <<motion>>
         /\ \A i \in 2..Len(emitted') : emitted'[i].name # "animate"
         /\ last.op = "_ready" => emitted'[1].args = <<Vector2(0, 0)>>
         /\ (/\ last.op = "handle_interaction"
             /\ last.signal_info \in {"on_dialogue", "menu_active"}) =>
                emitted'[1].args = <<Vector2(0, 0)>>
         /\ (/\ last.op = "_physics_process"
             /\ last.start.player_status # Interacting) =>
                emitted'[1].args = <<move_character(last.start, last.pressed).motion>>
      ]_vars

\* a frame that starts the player walking right while its animate still
\* carries the zero motion
C14_Witness ==
    /\ last.op = "_physics_process"
    /\ last.start.motion = Vector2(0, 0)
    /\ last.pressed = {"Right"}
    /\ motion = Vector2(VELOCITY, 0)
    /\ emitted[1].name = "animate"
    /\ emitted[1].args = <<Vector2(0, 0)>>

\* C15: while the player is Interacting the motion is (0,0).
C15_InteractingMotionZero ==
    player_status = Interacting => motion = Vector2(0, 0)

\* a dialogue that began while the player was walking
C15_Witness ==
    /\ last.op = "handle_interaction"
    /\ last.signal_info = "on_dialogue"
    /\ last.start.player_status = Walking
    /\ last.start.motion # Vector2(0, 0)
    /\ player_status = Interacting
    /\ motion = Vector2(0, 0)

\* C16: the player is Interacting exactly when the dialogue box is Active or
\* the menu is Open, and the dialogue box is Inactive in every frame that
\* evaluates is_valid_interaction.
C16_InteractingIffDialogueOrMenu ==
    /\ player_status = Interacting <=>
           (dialogue_box_status = Active \/ menu_status = Open)
    /\ (/\ last.op = "_physics_process"
        /\ last.start.player_status # Interacting
        /\ "Interact" \in last.just_pressed
        /\ last.collision.some) =>
           /\ last.start.dialogue_box_status = Inactive
           /\ dialogue_box_status = Inactive

\* is_valid_interaction evaluated in the second or a later frame of the player
C16_Witness ==
    /\ last.op = "_physics_process"
    /\ last.start.player_status # Interacting
    /\ "Interact" \in last.just_pressed
    /\ last.collision.some
    /\ counter >= 2
    /\ dialogue_box_status = Inactive
    /\ menu_status = Closed

\* C18: a frame emits player_position exactly when it did not start
\* Interacting and Menu was just pressed; the signal carries the position
\* after the frame's move and follows any player_interacting of the frame.
C18_PlayerPositionSignal ==
    last.op = "_physics_process" =>
        LET at(name) == {i \in DOMAIN emitted : emitted[i].name = name}
        IN /\ at("player_position") # {} <=>
                 (last.start.player_status # Interacting /\ "Menu" \in last.just_pressed)
           /\ Cardinality(at("player_position")) <= 1
           /\ \A i \in at("player_position") :
                /\ emitted[i].args = <<<<current_position.x, current_position.y>>>>
                /\ \A j \in at("player_interacting") : j < i

\* Menu pressed in a frame that moved the player
C18_Witness ==
    /\ last.op = "_physics_process"
    /\ "Menu" \in last.just_pressed
    /\ current_position # last.start.current_position
    /\ \E i \in DOMAIN emitted :
         /\ emitted[i].name = "player_position"
         /\ emitted[i].args = <<<<current_position.x, current_position.y>>>>
\* C17: with the sprite listening to animate, every frame that starts with
\* the player Interacting hands the sprite the zero motion and makes it play
\* the idle clip of its remembered facing, never a walk clip.
C17_InteractingPlaysIdle ==
    (last.op = "_physics_process" /\ last.start.player_status = Interacting) =>
        /\ anim_last.op = "_on_player_animate"
        /\ anim_last.delivered = <<Vector2(0, 0)>>
        /\ current_player_motion = Idle
        /\ played = <<CASE idle_player_direction = Downwards -> "idle front"
                        [] idle_player_direction = Upwards -> "idle back"
                        [] idle_player_direction = Left -> "idle left"
                        [] idle_player_direction = Right -> "idle right">>

\* the menu opened on a player that had walked right; Left is held in a frame
\* of the interaction and the sprite idles facing right
C17_Witness ==
    /\ last.op = "_physics_process"
    /\ last.start.player_status = Interacting
    /\ last.start.menu_status = Open
    /\ last.pressed = {"Left"}
    /\ loaded_direction = Downwards
    /\ idle_player_direction = Right
    /\ played = <<"idle right">>
====
